---- MODULE Spec2Model ----
(***************************************************************************)
(* cloudtrail-to-slack, src/main.py: the S3-notification handler, the      *)
(* rule evaluator and the JSON flattener.                                  *)
(*                                                                         *)
(* Python str values are TLA+ strings (\o, Len and SubSeq act on them as   *)
(* on Python strings).  A JSON value is a tagged record:                   *)
(*   Leaf(v), Dict(<<[k, x], ...>>) in insertion order, List(<<x, ...>>).  *)
(* A Python call that may raise returns a record with a field "raised".    *)
(***************************************************************************)
EXTENDS Integers, Sequences, FiniteSets, TLC

VARIABLES
    y, out, fl_pc,                      \* flatten_json: argument, result
    event, rules, ignore_rules,         \* should_message_be_processed: arguments
    result, ev_pc,                      \*   and its ProcessingResult
    s3_notification_event, cfg,         \* lambda_handler: argument, Config()
    bucket, notifier,                   \*   the S3 bucket, the chat endpoint
    run, pc                             \*   what the invocation did

vars == <<y, out, fl_pc, event, rules, ignore_rules, result, ev_pc,
          s3_notification_event, cfg, bucket, notifier, run, pc>>

\* ------------------------------------------------------------------ bounds
MaxItems == 2       \* entries of one mapping / elements of one sequence
MaxRules == 2       \* expressions of one rule list
MaxRecords == 2     \* change records of one batch
MaxEvents == 2      \* sub-events of one stored log object
MaxFailAt == 3      \* the post_message calls (first, second, ...) that may fail

\* -------------------------------------------------------------- JSON values
Leaf(v) == [t |-> "leaf", v |-> v]
Dict(items) == [t |-> "dict", items |-> items]
List(items) == [t |-> "list", items |-> items]
Item(k, x) == [k |-> k, x |-> x]

\* "k in d" and d[k] of a Python dict
Has(d, k) == \E i \in 1..Len(d.items) : d.items[i].k = k
Get(d, k) == d.items[CHOOSE i \in 1..Len(d.items) : d.items[i].k = k].x

\* str(i) of a list index
Str(i) == IF i < 10 THEN SubSeq("0123456789", i + 1, i + 1)
          ELSE SubSeq("0123456789", (i \div 10) + 1, (i \div 10) + 1)
               \o SubSeq("0123456789", (i % 10) + 1, (i % 10) + 1)

\* ------------------------------------------------------------ flatten_json
EmptyOut == [q \in {} |-> ""]

\* out[key] = x
SetItem(o, key, x) == [q \in DOMAIN o \cup {key} |-> IF q = key THEN x ELSE o[q]]

\* a variant that leaves the separator out
ChildNameNoSep(name, a) == name \o a
\* name + a + "."
ChildName(name, a) == name \o a \o "."

RECURSIVE flatten(_, _, _)
RECURSIVE flatten_dict(_, _, _, _)
RECURSIVE flatten_list(_, _, _, _)

\* for a in x: flatten(x[a], name + a + ".")
flatten_dict(items, n, name, o) ==
    IF n > Len(items) THEN o
    ELSE flatten_dict(items, n + 1, name,
                      flatten(items[n].x, ChildName(name, items[n].k), o))

\* i = 0; for a in x: flatten(a, name + str(i) + "."); i += 1
flatten_list(items, n, name, o) ==
    IF n > Len(items) THEN o
    ELSE flatten_list(items, n + 1, name,
                      flatten(items[n], ChildName(name, Str(n - 1)), o))

\* the inner flatten(x, name): out threaded through
flatten(x, name, o) ==
    IF x.t = "dict" THEN flatten_dict(x.items, 1, name, o)
    ELSE IF x.t = "list" THEN flatten_list(x.items, 1, name, o)
    ELSE SetItem(o, SubSeq(name, 1, Len(name) - 1), x.v)

flatten_json(x) == flatten(x, "", EmptyOut)

\* ---------------------------------------------- the structures flattened
LeafValues == {"1", "2"}
FlatKeys == <<"a", "a.b", "b">>

Range(s) == {s[i] : i \in 1..Len(s)}

\* the mapping f (keys -> values) as a dict, entries in FlatKeys order
DictOf(f) ==
    LET ks == SelectSeq(FlatKeys, LAMBDA k : k \in DOMAIN f)
    IN Dict([i \in 1..Len(ks) |-> Item(ks[i], f[ks[i]])])

DictsOver(V) ==
    {DictOf(f) : f \in UNION {[S -> V] : S \in {T \in SUBSET Range(FlatKeys) :
                                                  Cardinality(T) <= MaxItems}}}
ListsOver(V) == {List(s) : s \in UNION {[1..n -> V] : n \in 0..MaxItems}}

Level0 == {Leaf(v) : v \in LeafValues}
Level1 == Level0 \cup ListsOver(Level0) \cup DictsOver(Level0)
\* {"a": [{"b": 1}, 2]}, the example of the documentation
Sample == Dict(<<Item("a", List(<<Dict(<<Item("b", Leaf("1"))>>), Leaf("2")>>))>>)
Structures == DictsOver(Level1) \cup {Sample}

\* the leaves of x in traversal order, each with the name the traversal
\* reaches it under (the trailing separator still on)
RECURSIVE Leaves(_, _)
RECURSIVE LeavesOfItems(_, _, _, _)
LeavesOfItems(x, n, name, acc) ==
    IF n > Len(x.items) THEN acc
    ELSE LeavesOfItems(x, n + 1, name,
            acc \o (IF x.t = "dict"
                    THEN Leaves(x.items[n].x, name \o x.items[n].k \o ".")
                    ELSE Leaves(x.items[n], name \o Str(n - 1) \o ".")))
Leaves(x, name) ==
    IF x.t \in {"dict", "list"} THEN LeavesOfItems(x, 1, name, <<>>)
    ELSE <<[name |-> name, v |-> x.v]>>

\* whether s holds p as a substring: "p in s"
Contains(s, p) == \E i \in 1..(Len(s) - Len(p) + 1) : SubSeq(s, i, i + Len(p) - 1) = p

\* whether some mapping key of x holds the separator
RECURSIVE HasDotKey(_)
HasDotKey(x) ==
    IF x.t = "dict"
    THEN \E i \in 1..Len(x.items) : Contains(x.items[i].k, ".") \/ HasDotKey(x.items[i].x)
    ELSE IF x.t = "list" THEN \E i \in 1..Len(x.items) : HasDotKey(x.items[i])
    ELSE FALSE

\* ------------------------------------------------- rule expressions (eval)
\* The expressions of a rule list are Python source; the forms modelled are
\* those of rules.py and of the ignore rule of main.py line 221:
\*   eq       event['key'] == 'val'                    KeyError without the key
\*   in_eq    'key' in event and event['key'] == 'val'
\*   get      event.get('key')                         a str or None, never True
\*   name     true                                     NameError: no such name
Rule(op, key, val) == [op |-> op, key |-> key, val |-> val]

\* eval(rule, {}, {"event": flat_event}): "True", "False", "NotBool" (a value
\* that is not a bool) or the name of the exception raised
Eval(rule, flat_event) ==
    CASE rule.op = "eq" ->
            IF rule.key \notin DOMAIN flat_event THEN "KeyError"
            ELSE IF flat_event[rule.key] = rule.val THEN "True" ELSE "False"
      [] rule.op = "in_eq" ->
            IF rule.key \in DOMAIN flat_event /\ flat_event[rule.key] = rule.val
            THEN "True" ELSE "False"
      [] rule.op = "name" -> "NameError"
      [] OTHER -> "NotBool"

Raises(v) == v \notin {"True", "False", "NotBool"}

\* ------------------------------------------- should_message_be_processed
ProcessingResult(should_be_processed, errors, evaluated) ==
    [raised |-> FALSE, should_be_processed |-> should_be_processed,
     errors |-> errors, evaluated |-> evaluated]

\* a variant that swallows the exception
ExceptDropped(errors, e, rule) == errors
\* except Exception as e: errors.append({"error": e, "rule": rule})
Except(errors, e, rule) == Append(errors, [error |-> e, rule |-> rule])

\* One "for rule in list" loop from position n on.  acc carries errors and
\* the positions evaluated so far (evaluated is for the properties only).
RECURSIVE ForRules(_, _, _, _, _)
RECURSIVE ForRulesNoReturn(_, _, _, _, _)
\* a variant without the return on a match: the loop runs to the end
ForRulesNoReturn(list, tag, n, flat_event, acc) ==
    IF n > Len(list) THEN acc
    ELSE LET v == Eval(list[n], flat_event)
             seen == Append(acc.evaluated, [list |-> tag, n |-> n])
         IN ForRulesNoReturn(list, tag, n + 1, flat_event,
                [matched |-> acc.matched \/ v = "True",
                 errors |-> IF Raises(v) THEN Except(acc.errors, v, list[n])
                            ELSE acc.errors,
                 evaluated |-> seen])
\* the loop: return on the first rule that is True
ForRules(list, tag, n, flat_event, acc) ==
    IF n > Len(list) THEN acc
    ELSE LET v == Eval(list[n], flat_event)
             seen == Append(acc.evaluated, [list |-> tag, n |-> n])
         IN IF v = "True"
            THEN [matched |-> TRUE, errors |-> acc.errors, evaluated |-> seen]
            ELSE ForRules(list, tag, n + 1, flat_event,
                    [matched |-> FALSE,
                     errors |-> IF Raises(v) THEN Except(acc.errors, v, list[n])
                                ELSE acc.errors,
                     evaluated |-> seen])

KeyErrorResult == [raised |-> TRUE, should_be_processed |-> FALSE,
                   errors |-> <<>>, evaluated |-> <<>>]

\* a variant that evaluates the match-rules before the ignore-rules
should_message_be_processed_rules_first(ev, rs, igs) ==
    LET flat_event == flatten_json(ev)
        start == [matched |-> FALSE, errors |-> <<>>, evaluated |-> <<>>]
        m == ForRules(rs, "rules", 1, flat_event, start)
        ig == ForRules(igs, "ignore_rules", 1, flat_event, [m EXCEPT !.matched = FALSE])
    IN IF m.matched THEN ProcessingResult(TRUE, m.errors, m.evaluated)
       ELSE ProcessingResult(FALSE, ig.errors, ig.evaluated)

\* ignore_rules, then rules; userIdentity and eventName are read first
should_message_be_processed(ev, rs, igs) ==
    LET flat_event == flatten_json(ev)
        start == [matched |-> FALSE, errors |-> <<>>, evaluated |-> <<>>]
        ig == ForRules(igs, "ignore_rules", 1, flat_event, start)
        m == ForRules(rs, "rules", 1, flat_event, ig)
    IN IF ~Has(ev, "userIdentity") \/ ~Has(ev, "eventName") THEN KeyErrorResult
       ELSE IF ig.matched THEN ProcessingResult(FALSE, ig.errors, ig.evaluated)
       ELSE IF m.matched THEN ProcessingResult(TRUE, m.errors, m.evaluated)
       ELSE ProcessingResult(FALSE, m.errors, m.evaluated)

\* -------------------------------------------- the events and rules checked
E_login == Dict(<<Item("eventName", Leaf("ConsoleLogin")),
                  Item("userIdentity", Dict(<<Item("type", Leaf("IAMUser")),
                                             Item("accountId", Leaf("111"))>>))>>)
E_denied == Dict(<<Item("eventName", Leaf("DeleteTrail")),
                   Item("errorCode", Leaf("AccessDenied")),
                   Item("userIdentity", Dict(<<Item("type", Leaf("Root"))>>))>>)
E_list == Dict(<<Item("eventName", Leaf("ListBuckets")),
                 Item("userIdentity", Dict(<<Item("accountId", Leaf("222"))>>)),
                 Item("resources", List(<<Dict(<<Item("ARN", Leaf("arn:b"))>>)>>))>>)

R_login == Rule("eq", "eventName", "ConsoleLogin")
R_denied == Rule("eq", "errorCode", "AccessDenied")
R_account == Rule("in_eq", "userIdentity.accountId", "111")
R_get == Rule("get", "errorCode", "")
R_name == Rule("name", "true", "")

\* ------------------------------------------------- urllib.parse.unquote_plus
HexDigits == "0123456789abcdef"
HexUpper == "0123456789ABCDEF"
IsHex(c) == \E i \in 1..16 : SubSeq(HexDigits, i, i) = c \/ SubSeq(HexUpper, i, i) = c
HexVal(c) == (CHOOSE i \in 1..16 : SubSeq(HexDigits, i, i) = c \/ SubSeq(HexUpper, i, i) = c) - 1

\* chr(32) .. chr(95) and chr(97) .. chr(126)
PrintableLow == " !\"#$%&'()*+,-./0123456789:;<=>?@ABCDEFGHIJKLMNOPQRSTUVWXYZ[\\]^_"
PrintableHigh == "abcdefghijklmnopqrstuvwxyz{|}~"
\* the character one escaped byte decodes to: itself for ASCII; a byte from
\* 0x80 on, standing alone, is no UTF-8 and decodes (errors="replace") to
\* U+FFFD.  The grave accent and the control characters are written by name.
DecodeByte(b) == IF b >= 128 THEN "<U+FFFD>"
                 ELSE IF b >= 32 /\ b <= 95 THEN SubSeq(PrintableLow, b - 31, b - 31)
                 ELSE IF b >= 97 /\ b <= 126 THEN SubSeq(PrintableHigh, b - 96, b - 96)
                 ELSE IF b = 96 THEN "<grave>"
                 ELSE "<ctl>"

RECURSIVE UnquoteFrom(_, _)
UnquoteFrom(s, i) ==
    IF i > Len(s) THEN ""
    ELSE LET c == SubSeq(s, i, i)
         IN IF c = "+" THEN " " \o UnquoteFrom(s, i + 1)
            ELSE IF /\ c = "%" /\ i + 2 <= Len(s)
                    /\ IsHex(SubSeq(s, i + 1, i + 1)) /\ IsHex(SubSeq(s, i + 2, i + 2))
            THEN DecodeByte(16 * HexVal(SubSeq(s, i + 1, i + 1))
                            + HexVal(SubSeq(s, i + 2, i + 2)))
                 \o UnquoteFrom(s, i + 3)
            ELSE c \o UnquoteFrom(s, i + 1)

unquote_plus(s) == UnquoteFrom(s, 1)

\* s.startswith(p)
StartsWith(s, p) == Len(s) >= Len(p) /\ SubSeq(s, 1, Len(p)) = p

\* --------------------------------------------------- the chat endpoint
\* What a call chain has done so far: the post_message calls made, the
\* get_object calls made, the exception in flight ("" when none), and the
\* record and sub-event being handled (rec, sub: for the properties only).
NoException == ""
Start == [posted |-> <<>>, fetched |-> <<>>, raised |-> NoException, rec |-> 0, sub |-> 0]
Raise(st, e) == [st EXCEPT !.raised = e]

\* slack_helpers.post_message: the n-th call of the invocation raises when
\* the endpoint fails on it (notifier holds the numbers of those calls)
post_message(st, message, account_id) ==
    LET n == Len(st.posted) + 1
    IN [st EXCEPT !.posted = Append(@, [message |-> message, account_id |-> account_id,
                                        rec |-> st.rec, sub |-> st.sub,
                                        sent |-> n \notin notifier]),
                  !.raised = IF n \in notifier THEN "SlackError" ELSE @]

\* slack_helpers: the three messages
event_to_slack_message(ev, source_file, account_id_from_event) ==
    [kind |-> "event", event |-> ev, source_file |-> source_file]
message_for_rule_evaluation_error_notification(error, object_key, rule) ==
    [kind |-> "rule_evaluation_error", error |-> error, object_key |-> object_key,
     rule |-> rule]
message_for_slack_error_notification(e, s3_event) ==
    [kind |-> "error", error |-> e, event |-> s3_event]

\* ------------------------------------------------------------ handle_event
\* record["userIdentity"]["accountId"] if "accountId" in record["userIdentity"] else ""
AccountId(x) == IF Has(Get(x, "userIdentity"), "accountId")
                THEN Get(Get(x, "userIdentity"), "accountId").v ELSE ""

\* for error in result.errors: post_message(...)
RECURSIVE PostErrors(_, _, _, _, _)
PostErrors(st, errors, n, source_file_object_key, account_id) ==
    IF n > Len(errors) \/ st.raised # NoException THEN st
    ELSE PostErrors(
            post_message(st,
                message_for_rule_evaluation_error_notification(
                    errors[n].error, source_file_object_key, errors[n].rule),
                account_id),
            errors, n + 1, source_file_object_key, account_id)

\* a variant that does not read the toggle
ReportErrorsAlways(st, errors, source_file_object_key, account_id) ==
    PostErrors(st, errors, 1, source_file_object_key, account_id)
\* if cfg.rule_evaluation_errors_to_slack: for error in result.errors: ...
ReportErrors(st, errors, source_file_object_key, account_id) ==
    IF cfg.rule_evaluation_errors_to_slack
    THEN PostErrors(st, errors, 1, source_file_object_key, account_id)
    ELSE st

\* a variant without the early return
SendEventAlways(st, res, ev, source_file_object_key, account_id) ==
    post_message(st, event_to_slack_message(ev, source_file_object_key, account_id),
                 account_id)
\* if not result.should_be_processed: return; ...; post_message(...)
SendEvent(st, res, ev, source_file_object_key, account_id) ==
    IF ~res.should_be_processed THEN st
    ELSE post_message(st, event_to_slack_message(ev, source_file_object_key, account_id),
                      account_id)

handle_event(st, ev, source_file_object_key, rs, igs) ==
    LET res == should_message_be_processed(ev, rs, igs)
        account_id == AccountId(ev)
        reported == ReportErrors(st, res.errors, source_file_object_key, account_id)
    IN IF res.raised THEN Raise(st, "KeyError")
       ELSE IF reported.raised # NoException THEN reported
       ELSE SendEvent(reported, res, ev, source_file_object_key, account_id)

\* ------------------------------------------------ get_cloudtrail_log_records
None == [t |-> "None"]

\* record["s3"]["object"]["key"]
ObjectKeyRaw(record) == Get(Get(Get(record, "s3"), "object"), "key").v
\* a variant that leaves the key as received
ObjectKeyNotDecoded(record) == ObjectKeyRaw(record)
\* key = urllib.parse.unquote_plus(record["s3"]["object"]["key"], encoding="utf-8")
ObjectKey(record) == unquote_plus(Get(Get(Get(record, "s3"), "object"), "key").v)

\* returns the call chain and the value returned (None, or key and events)
get_cloudtrail_log_records(st, record) ==
    IF ~Has(record, "s3") THEN [st |-> Raise(st, "AssertionError"), value |-> None]
    ELSE LET bucket_name == Get(Get(Get(record, "s3"), "bucket"), "name").v
             key == ObjectKey(record)
             asked == [st EXCEPT !.fetched = Append(@, [Bucket |-> bucket_name, Key |-> key,
                                                        rec |-> st.rec])]
         IN IF Contains(key, "Digest") THEN [st |-> st, value |-> None]
            \* s3.get_object, gzip, json.loads, content_as_json["Records"]
            ELSE IF key \notin DOMAIN bucket
            THEN [st |-> Raise(asked, "NoSuchKey"), value |-> None]
            ELSE IF ~bucket[key].gzip_json
            THEN [st |-> Raise(asked, "BadGzipFile"), value |-> None]
            ELSE [st |-> asked,
                  value |-> [t |-> "dict", key |-> key, events |-> bucket[key].Records]]

\* ------------------------------------------- handle_created_object_record
\* for cloudtrail_log_event in cloudtrail_log_record["events"]: handle_event(...)
RECURSIVE ForEvents(_, _, _, _)
ForEvents(st, events, n, key) ==
    IF n > Len(events) \/ st.raised # NoException THEN st
    ELSE ForEvents(handle_event([st EXCEPT !.sub = n], events[n], key,
                                cfg.rules, cfg.ignore_rules),
                   events, n + 1, key)

handle_created_object_record(st, record) ==
    LET got == get_cloudtrail_log_records(st, record)
    IN IF got.st.raised # NoException \/ got.value = None THEN got.st
       ELSE ForEvents(got.st, got.value.events, 1, got.value.key)

\* ------------------------------------------- handle_removed_object_record
\* a variant that posts nothing
handle_removed_object_record_silent(st, record) == st
\* account_id, message, post_message(message, account_id)
handle_removed_object_record(st, record) ==
    LET account_id == AccountId(record)
    IN post_message(st,
            event_to_slack_message(record, ObjectKeyRaw(record), account_id),
            account_id)

\* ---------------------------------------------------------- lambda_handler
\* the body of "for record in s3_notification_event["Records"]"
HandleRecord(st, record) ==
    IF ~Has(record, "eventName") THEN Raise(st, "KeyError")
    ELSE IF ~Has(record, "s3") THEN Raise(st, "KeyError")
    ELSE LET event_name == Get(record, "eventName").v
         IN IF StartsWith(event_name, "ObjectRemoved")
            THEN handle_removed_object_record(st, record)
            ELSE IF StartsWith(event_name, "ObjectCreated")
            THEN handle_created_object_record(st, record)
            ELSE st

RECURSIVE ForRecords(_, _, _)
ForRecords(st, records, n) ==
    IF n > Len(records) \/ st.raised # NoException THEN st
    ELSE ForRecords([HandleRecord([st EXCEPT !.rec = n, !.sub = 0], records[n])
                        EXCEPT !.sub = 0],
                    records, n + 1)

\* a variant that only logs
OnExceptionSilent(st, s3_event) == [st EXCEPT !.raised = NoException]
\* except Exception as e: post_message(message_for_slack_error_notification(...), None)
OnException(st, s3_event) ==
    post_message([st EXCEPT !.raised = NoException, !.rec = 0, !.sub = 0],
                 message_for_slack_error_notification(st.raised, s3_event), "None")

\* what one invocation did: the calls made, the exception the try block
\* caught, the exception that left lambda_handler, the value returned
lambda_handler(s3_event) ==
    LET tried == IF ~Has(s3_event, "Records") THEN Raise(Start, "KeyError")
                 ELSE ForRecords(Start, Get(s3_event, "Records").items, 1)
        after == IF tried.raised # NoException THEN OnException(tried, s3_event)
                 ELSE tried
    IN [posted |-> after.posted, fetched |-> after.fetched,
        caught |-> tried.raised, raised |-> after.raised,
        ret |-> IF after.raised = NoException THEN 200 ELSE 0]

SeqsUpTo(S, n) == UNION {[1..k -> S] : k \in 0..n}

Idle == "idle"
FlattenIdle == y = Idle /\ out = Idle /\ fl_pc = Idle
RulesIdle == event = Idle /\ rules = Idle /\ ignore_rules = Idle
             /\ result = Idle /\ ev_pc = Idle
HandlerIdle == s3_notification_event = Idle /\ cfg = Idle /\ bucket = Idle
               /\ notifier = Idle /\ run = Idle /\ pc = Idle
flatten_vars == <<y, out, fl_pc>>
rules_vars == <<event, rules, ignore_rules, result, ev_pc>>
handler_vars == <<s3_notification_event, cfg, bucket, notifier, run, pc>>

\* ------------------------------------------------- flatten_json, on its own
InitFlatten == /\ y \in Structures
               /\ out = EmptyOut
               /\ fl_pc = "call"
               /\ RulesIdle /\ HandlerIdle

CallFlatten == /\ fl_pc = "call"
               /\ out' = flatten_json(y)
               /\ fl_pc' = "done"
               /\ UNCHANGED <<y, rules_vars, handler_vars>>

NextFlatten == CallFlatten
SpecFlatten == InitFlatten /\ [][NextFlatten]_vars

\* ------------------------------- should_message_be_processed, on its own
EventPool == {E_login, E_denied, E_list}
RulePool == {R_login, R_denied, R_account, R_get, R_name}

InitRules == /\ event \in EventPool
             /\ rules \in SeqsUpTo(RulePool, MaxRules)
             /\ ignore_rules \in SeqsUpTo(RulePool, MaxRules)
             /\ result = Idle
             /\ ev_pc = "call"
             /\ FlattenIdle /\ HandlerIdle

CallRules == /\ ev_pc = "call"
             /\ result' = should_message_be_processed(event, rules, ignore_rules)
             /\ ev_pc' = "done"
             /\ UNCHANGED <<event, rules, ignore_rules, flatten_vars, handler_vars>>

NextRules == CallRules
SpecRules == InitRules /\ [][NextRules]_vars

\* ------------------------------------------------------ lambda_handler runs
Principal == Dict(<<Item("principalId", Leaf("AWS:AIDA"))>>)
Account == Dict(<<Item("principalId", Leaf("AWS:AIDA")), Item("accountId", Leaf("111"))>>)
S3Section(key) == Dict(<<Item("bucket", Dict(<<Item("name", Leaf("trail"))>>)),
                         Item("object", Dict(<<Item("key", Leaf(key))>>))>>)
Record(event_name, key, identity) ==
    Dict(<<Item("eventName", Leaf(event_name)), Item("userIdentity", identity),
           Item("s3", S3Section(key))>>)

Rec_removed == Record("ObjectRemoved:Delete", "log", Principal)
Rec_removed_digest == Record("ObjectRemoved:DeleteMarkerCreated", "x-Digest", Account)
Rec_created == Record("ObjectCreated:Put", "log", Principal)
Rec_created_gone == Record("ObjectCreated:Put", "gone", Principal)
Rec_created_digest == Record("ObjectCreated:Put", "x-Digest", Principal)
Rec_created_encoded == Record("ObjectCreated:Put", "x-%44igest", Principal)
Rec_created_percent == Record("ObjectCreated:Put", "%aDigest", Principal)
Rec_restore == Record("ObjectRestore:Post", "log", Principal)
\* a record without its "s3" section
Rec_no_s3 == Dict(<<Item("eventName", Leaf("ObjectCreated:Put")),
                    Item("userIdentity", Principal)>>)

RecordPool == {Rec_removed, Rec_removed_digest, Rec_created, Rec_created_gone,
               Rec_created_digest, Rec_created_encoded, Rec_created_percent,
               Rec_restore, Rec_no_s3}

Batch(records) == Dict(<<Item("Records", List(records))>>)
\* a notification without "Records"
NoRecords == Dict(<<Item("Event", Leaf("s3:TestEvent"))>>)

\* a stored object: gzip-compressed JSON {"Records": [...]}, or not that
Object(events) == [gzip_json |-> TRUE, Records |-> events]
Garbage == [gzip_json |-> FALSE, Records |-> <<>>]

\* the bucket of the batches: no object under "gone"; objects under the
\* digest key and under what "%aDigest" decodes to
DefaultBucket == ("log" :> Object(<<E_login, E_denied>>))
                 @@ ("x-Digest" :> Object(<<E_login>>))
                 @@ ("<U+FFFD>igest" :> Object(<<E_denied>>))

HandlerRules == {R_login, R_denied}
HandlerEvents == {E_login, E_denied}
Config(rs, igs, toggle) ==
    [rules |-> rs, ignore_rules |-> igs, rule_evaluation_errors_to_slack |-> toggle]
Configs == {Config(rs, igs, toggle) : rs \in SeqsUpTo(HandlerRules, MaxRules),
                                      igs \in SeqsUpTo(HandlerRules, MaxRules),
                                      toggle \in BOOLEAN}
DeployedConfigs == {Config(<<R_login, R_denied>>, <<>>, toggle) : toggle \in BOOLEAN}
                   \cup {Config(<<R_login>>, <<R_denied>>, toggle) : toggle \in BOOLEAN}
FailSets == {S \in SUBSET (1..MaxFailAt) : Cardinality(S) <= 2}

\* batches of any records under the deployed configurations
InitBatches ==
    /\ s3_notification_event \in
          {Batch(rs) : rs \in SeqsUpTo(RecordPool, MaxRecords)} \cup {NoRecords}
    /\ cfg \in DeployedConfigs
    /\ bucket = DefaultBucket

\* one created log object of any content under any configuration
InitLogObject ==
    /\ s3_notification_event = Batch(<<Rec_created>>)
    /\ cfg \in Configs
    /\ bucket \in {"log" :> o : o \in {Garbage} \cup
                      {Object(es) : es \in SeqsUpTo(HandlerEvents, MaxEvents)}}

Init == /\ InitBatches \/ InitLogObject
        /\ notifier \in FailSets
        /\ run = Idle
        /\ pc = "call"
        /\ FlattenIdle /\ RulesIdle

LambdaHandler ==
    /\ pc = "call"
    /\ run' = lambda_handler(s3_notification_event)
    /\ pc' = "done"
    /\ UNCHANGED <<s3_notification_event, cfg, bucket, notifier, flatten_vars, rules_vars>>

Next == LambdaHandler
Spec == Init /\ [][Next]_vars

\* ---------------------------------------------------------------- claims
\* name[:-1]: the flattened key of the leaf reached under name
LeafKey(name) == SubSeq(name, 1, Len(name) - 1)

\* every leaf of structure x is in mapping o under its own key, and o has
\* as many keys as x has leaves
LeavesKept(x, o) ==
    LET L == Leaves(x, "")
    IN /\ Cardinality(DOMAIN o) = Len(L)
       /\ \A i \in 1..Len(L) : /\ LeafKey(L[i].name) \in DOMAIN o
                               /\ o[LeafKey(L[i].name)] = L[i].v

\* C9 as stated: for every nested structure, flatten_json gives every leaf
\* exactly one key and no two leaves the same key (as many keys as leaves).
C9_InjectiveOnEveryStructure == fl_pc = "done" => LeavesKept(y, out)

\* C9 amended: flatten_json gives every leaf exactly one key and no two
\* leaves the same key when no mapping key of the structure contains ".".
C9_InjectiveWithoutDotKeys ==
    (fl_pc = "done" /\ ~HasDotKey(y)) => LeavesKept(y, out)

\* a structure without "." in its keys, nested through a mapping and a
\* sequence, flattened to four keys
C9_Witness ==
    /\ fl_pc = "done" /\ ~HasDotKey(y)
    /\ Cardinality(DOMAIN out) = 4
    /\ {"a.0", "a.1", "b.a", "b.b"} = DOMAIN out

\* the positions of both lists in the order of evaluation
Order(igs, rs) ==
    [i \in 1..Len(igs) |-> [list |-> "ignore_rules", n |-> i]]
    \o [i \in 1..Len(rs) |-> [list |-> "rules", n |-> i]]
RuleAt(pos) == IF pos.list = "ignore_rules" THEN ignore_rules[pos.n] ELSE rules[pos.n]
EvalAt(pos) == Eval(RuleAt(pos), flatten_json(event))
\* the first position that evaluates to True; Len + 1 when none does
FirstTrue(order) ==
    IF \E k \in 1..Len(order) : EvalAt(order[k]) = "True"
    THEN CHOOSE k \in 1..Len(order) :
            /\ EvalAt(order[k]) = "True"
            /\ \A j \in 1..(k - 1) : EvalAt(order[j]) # "True"
    ELSE Len(order) + 1

\* C3: when some ignore-rule evaluates to True on the flattened event the
\* result is should_be_processed = False, whatever the match-rules say.
C3_IgnorePrecedesMatch ==
    (ev_pc = "done" /\ \E i \in 1..Len(ignore_rules) :
                          Eval(ignore_rules[i], flatten_json(event)) = "True")
    => (~result.raised /\ result.should_be_processed = FALSE)

\* an event that an ignore-rule and a match-rule both match, not processed
C3_Witness ==
    /\ ev_pc = "done"
    /\ \E i \in 1..Len(ignore_rules) : Eval(ignore_rules[i], flatten_json(event)) = "True"
    /\ \E i \in 1..Len(rules) : Eval(rules[i], flatten_json(event)) = "True"
    /\ result.should_be_processed = FALSE

\* C4: the rules are evaluated in list order, ignore-rules first, up to and
\* including the first one that evaluates to True; that rule's list fixes
\* the verdict; nothing after it is evaluated and no error of a later rule
\* is collected.
C4_FirstMatchWins ==
    ev_pc = "done" =>
        LET order == Order(ignore_rules, rules)
            k == FirstTrue(order)
            last == IF k > Len(order) THEN Len(order) ELSE k
        IN /\ result.evaluated = SubSeq(order, 1, last)
           /\ result.should_be_processed = (k <= Len(order) /\ order[k].list = "rules")
           /\ \A i \in 1..Len(result.errors) :
                 \E j \in 1..(k - 1) : /\ j <= Len(order)
                                       /\ RuleAt(order[j]) = result.errors[i].rule
                                       /\ Raises(EvalAt(order[j]))

\* a rule that would raise stands after the first matching rule, and the
\* result holds no error
C4_Witness ==
    /\ ev_pc = "done"
    /\ LET order == Order(ignore_rules, rules)
           k == FirstTrue(order)
       IN /\ k < Len(order)
          /\ \E j \in (k + 1)..Len(order) : Raises(EvalAt(order[j]))
          /\ result.errors = <<>>

\* the evaluated positions whose rule raised, in order
RaisedAt(evaluated) == SelectSeq(evaluated, LAMBDA pos : Raises(EvalAt(pos)))

\* C5: a rule whose evaluation raises does not abort the pass: the call
\* returns, the error list holds one (error, rule) entry per raising rule
\* evaluated, and the rule after a raising one is evaluated too.
C5_ErrorsCapturedNotThrown ==
    ev_pc = "done" =>
        LET order == Order(ignore_rules, rules)
            bad == RaisedAt(result.evaluated)
        IN /\ ~result.raised
           /\ Len(result.errors) = Len(bad)
           /\ \A i \in 1..Len(bad) :
                 result.errors[i] = [error |-> EvalAt(bad[i]), rule |-> RuleAt(bad[i])]
           /\ \A j \in 1..(Len(order) - 1) :
                 (j <= Len(result.evaluated) /\ Raises(EvalAt(order[j])))
                 => (j + 1 <= Len(result.evaluated) /\ result.evaluated[j + 1] = order[j + 1])

\* the first ignore-rule raises, and the event is still processed by a
\* match-rule after it
C5_Witness ==
    /\ ev_pc = "done"
    /\ Len(ignore_rules) >= 1
    /\ Raises(Eval(ignore_rules[1], flatten_json(event)))
    /\ result.should_be_processed = TRUE
    /\ Len(result.errors) >= 1

\* ------------------------------------------------ claims on lambda_handler
\* the change records of the batch
Records == IF Has(s3_notification_event, "Records")
           THEN Get(s3_notification_event, "Records").items ELSE <<>>
IsRemoval(r) == Has(r, "eventName") /\ Has(r, "s3")
                /\ StartsWith(Get(r, "eventName").v, "ObjectRemoved")
IsCreated(r) == Has(r, "eventName") /\ Has(r, "s3")
                /\ StartsWith(Get(r, "eventName").v, "ObjectCreated")
\* the object key of the record as the handler decodes it
DecodedKey(r) == unquote_plus(ObjectKeyRaw(r))

\* the post_message calls of kind k made for record i (0: for the batch)
Posts(k, i) == {n \in 1..Len(run.posted) :
                    run.posted[n].message.kind = k /\ run.posted[n].rec = i}
\* those made for sub-event j of record i
SubPosts(k, i, j) == {n \in Posts(k, i) : run.posted[n].sub = j}
\* the get_object calls made for record i
Fetches(i) == {n \in 1..Len(run.fetched) : run.fetched[n].rec = i}

\* the loop reaches record i: no record before it raised
Reached(i) == ForRecords(Start, SubSeq(Records, 1, i - 1), 1).raised = NoException

\* the sub-events of created record i that the bucket holds for it
Body(i) == LET key == DecodedKey(Records[i])
           IN IF /\ IsCreated(Records[i]) /\ ~Contains(key, "Digest")
                 /\ key \in DOMAIN bucket /\ bucket[key].gzip_json
              THEN bucket[key].Records ELSE <<>>
Verdict(e) == should_message_be_processed(e, cfg.rules, cfg.ignore_rules)

\* C1 as stated: every invocation ends by returning 200, whatever fails
\* inside it, the notifier during the top-level error notification included.
C1_AlwaysReturns200 ==
    pc = "done" => (run.ret = 200 /\ run.raised = NoException)

\* C2: an invocation posts exactly one top-level error notification, with
\* no account id and carrying the whole batch, when an exception leaves the
\* processing of its records, and none otherwise.
C2_OneTopLevelErrorNotification ==
    pc = "done" =>
        /\ Cardinality(Posts("error", 0)) = (IF run.caught # NoException THEN 1 ELSE 0)
        /\ \A n \in 1..Len(run.posted) :
              run.posted[n].message.kind = "error"
              => /\ run.posted[n].account_id = "None"
                 /\ run.posted[n].message.event = s3_notification_event
                 /\ run.posted[n].message.error = run.caught
                 /\ n = Len(run.posted)

\* the second record of a batch raises after the first was notified, and
\* one top-level error notification follows
C2_Witness ==
    /\ pc = "done" /\ Len(Records) >= 2
    /\ run.caught = "NoSuchKey"
    /\ Cardinality(Posts("error", 0)) = 1
    /\ Len(run.posted) >= 2
    /\ run.ret = 200

\* the removal notifications of record i
RemovalPosts(i) == {n \in Posts("event", i) :
                        /\ run.posted[n].message.event = Records[i]
                        /\ run.posted[n].message.source_file = ObjectKeyRaw(Records[i])
                        /\ run.posted[n].account_id = AccountId(Records[i])}

\* C6 as stated: every removal record of a batch gets exactly one removal
\* notification, whatever the configuration, its key and the other records.
C6_EveryRemovalNotifiedOnce ==
    pc = "done" =>
        \A i \in 1..Len(Records) :
            IsRemoval(Records[i]) => Cardinality(RemovalPosts(i)) = 1

\* C6 amended: a removal record gets exactly one removal notification when
\* the loop reaches it, and none when a record before it raised; this
\* whatever the configuration and the key.
C6_ReachedRemovalNotifiedOnce ==
    pc = "done" =>
        \A i \in 1..Len(Records) :
            IsRemoval(Records[i])
            => /\ Cardinality(RemovalPosts(i)) = (IF Reached(i) THEN 1 ELSE 0)
               /\ Posts("event", i) = RemovalPosts(i)
               /\ Posts("rule_evaluation_error", i) = {}

\* a removal record with a digest key, second in its batch, is notified
C6_Witness ==
    /\ pc = "done" /\ Len(Records) >= 2
    /\ IsRemoval(Records[2]) /\ Contains(ObjectKeyRaw(Records[2]), "Digest")
    /\ Cardinality(RemovalPosts(2)) = 1
    /\ cfg.ignore_rules # <<>>

\* C8 as stated: a record whose object key contains "Digest" is never
\* fetched and produces no notification, whatever its event type.
C8_DigestKeyNeverProcessed ==
    pc = "done" =>
        \A i \in 1..Len(Records) :
            (Has(Records[i], "s3") /\ Contains(ObjectKeyRaw(Records[i]), "Digest"))
            => /\ Fetches(i) = {}
               /\ \A n \in 1..Len(run.posted) : run.posted[n].rec # i

\* C8 amended: a created record whose URL-decoded object key contains
\* "Digest" is never fetched and produces no notification; a created record
\* that the loop reaches and whose decoded key does not contain it is
\* fetched once, under the decoded key.
C8_CreatedDigestNeverFetched ==
    pc = "done" =>
        \A i \in 1..Len(Records) :
            IsCreated(Records[i])
            => IF Contains(DecodedKey(Records[i]), "Digest")
               THEN /\ Fetches(i) = {}
                    /\ \A n \in 1..Len(run.posted) : run.posted[n].rec # i
               ELSE /\ Cardinality(Fetches(i)) = (IF Reached(i) THEN 1 ELSE 0)
                    /\ \A n \in Fetches(i) : run.fetched[n].Key = DecodedKey(Records[i])

\* a created record whose key holds "Digest" only once decoded is reached
\* and skipped, and the record after it is fetched
C8_Witness ==
    /\ pc = "done" /\ Len(Records) >= 2
    /\ IsCreated(Records[1])
    /\ ~Contains(ObjectKeyRaw(Records[1]), "Digest")
    /\ Contains(DecodedKey(Records[1]), "Digest")
    /\ Fetches(1) = {}
    /\ Cardinality(Fetches(2)) = 1
    /\ Posts("event", 2) # {}

\* no post_message call raised before the loop came to decide on the
\* notification of sub-event j of record i
Undisturbed(i, j) ==
    /\ Reached(i)
    /\ \A n \in 1..Len(run.posted) :
          (/\ run.posted[n].rec = i
           /\ \/ run.posted[n].sub < j
              \/ run.posted[n].sub = j /\ run.posted[n].message.kind = "rule_evaluation_error")
          => run.posted[n].sent

\* C7 as stated: a created record with N sub-events triggers at most N
\* calls of the notifier, one for each sub-event the rules select and none
\* for each they do not, under every configuration and toggle.
C7_AtMostNCalls ==
    pc = "done" =>
        \A i \in 1..Len(Records) :
            IsCreated(Records[i])
            => /\ Cardinality({n \in 1..Len(run.posted) : run.posted[n].rec = i})
                  <= Len(Body(i))
               /\ \A j \in 1..Len(Body(i)) :
                     Cardinality({n \in 1..Len(run.posted) :
                                     run.posted[n].rec = i /\ run.posted[n].sub = j})
                     = (IF Verdict(Body(i)[j]).should_be_processed THEN 1 ELSE 0)

\* C7 amended: a created record with N sub-events triggers at most N
\* sub-event notifications: none for a sub-event the rules do not select,
\* at most one for a sub-event they select, and exactly one when no
\* post_message call raised before; the rule-evaluation-error
\* notifications of the toggle come on top.
C7_AtMostOneEventNotificationPerSubEvent ==
    pc = "done" =>
        \A i \in 1..Len(Records) :
            IsCreated(Records[i])
            => /\ Cardinality(Posts("event", i)) <= Len(Body(i))
               /\ \A n \in Posts("event", i) :
                     /\ run.posted[n].sub \in 1..Len(Body(i))
                     /\ run.posted[n].message.event = Body(i)[run.posted[n].sub]
                     /\ run.posted[n].message.source_file = DecodedKey(Records[i])
               /\ \A j \in 1..Len(Body(i)) :
                     Cardinality(SubPosts("event", i, j))
                     = (IF Verdict(Body(i)[j]).should_be_processed /\ Undisturbed(i, j)
                        THEN 1 ELSE 0)

\* of two sub-events of one object the selected one is notified once and
\* the other, whose rule raised, only through a rule-evaluation-error
\* notification
C7_Witness ==
    /\ pc = "done" /\ Len(Records) = 1 /\ Len(Body(1)) = 2
    /\ cfg.rule_evaluation_errors_to_slack
    /\ \E j, k \in 1..2 :
          /\ Verdict(Body(1)[j]).should_be_processed
          /\ Cardinality(SubPosts("event", 1, j)) = 1
          /\ ~Verdict(Body(1)[k]).should_be_processed
          /\ SubPosts("event", 1, k) = {}
          /\ SubPosts("rule_evaluation_error", 1, k) # {}

\* handle_event was called for sub-event j of record i
Called(i, j) ==
    /\ Reached(i)
    /\ \A n \in 1..Len(run.posted) :
          (run.posted[n].rec = i /\ run.posted[n].sub < j) => run.posted[n].sent

\* the rule-evaluation-error notifications of sub-event j of record i, in
\* the order posted
ErrorPosts(i, j) ==
    SelectSeq(run.posted, LAMBDA c : /\ c.message.kind = "rule_evaluation_error"
                                     /\ c.rec = i /\ c.sub = j)

\* C10 as stated: for every sub-event handled, toggle off gives no
\* rule-evaluation-error notification, toggle on gives exactly one per
\* collected (error, rule) pair, and the sub-event's own notification is
\* sent exactly when the rules select it, whatever the toggle.
C10_ToggleAloneDecides ==
    pc = "done" =>
        \A i \in 1..Len(Records) : \A j \in 1..Len(Body(i)) :
            Called(i, j)
            => /\ Len(ErrorPosts(i, j))
                  = (IF cfg.rule_evaluation_errors_to_slack
                     THEN Len(Verdict(Body(i)[j]).errors) ELSE 0)
               /\ (SubPosts("event", i, j) # {}) = Verdict(Body(i)[j]).should_be_processed

\* C10 amended: toggle off gives no rule-evaluation-error notification;
\* toggle on gives one per collected (error, rule) pair, in order, up to
\* the first post_message call that raises; and the sub-event's own
\* notification is sent exactly when the rules select it, whatever the
\* toggle, unless one of those calls raised.
C10_ToggleDecidesUntilNotifierRaises ==
    pc = "done" =>
        \A i \in 1..Len(Records) : \A j \in 1..Len(Body(i)) :
            Called(i, j)
            => LET errors == Verdict(Body(i)[j]).errors
                   posts == ErrorPosts(i, j)
               IN /\ ~cfg.rule_evaluation_errors_to_slack => posts = <<>>
                  /\ Len(posts) <= Len(errors)
                  /\ \A n \in 1..Len(posts) :
                        /\ posts[n].message.error = errors[n].error
                        /\ posts[n].message.rule = errors[n].rule
                        /\ posts[n].message.object_key = DecodedKey(Records[i])
                        /\ posts[n].account_id = AccountId(Body(i)[j])
                        /\ n < Len(posts) => posts[n].sent
                  /\ (cfg.rule_evaluation_errors_to_slack
                      /\ \A n \in 1..Len(posts) : posts[n].sent)
                     => Len(posts) = Len(errors)
                  /\ (\A n \in 1..Len(posts) : posts[n].sent)
                     => (SubPosts("event", i, j) # {})
                        = Verdict(Body(i)[j]).should_be_processed

\* toggle on: a sub-event that an ignore-rule rejects after another rule
\* raised gets its rule-evaluation-error notification and no notification
\* of its own
C10_Witness ==
    /\ pc = "done" /\ Len(Records) = 1 /\ cfg.rule_evaluation_errors_to_slack
    /\ \E j \in 1..Len(Body(1)) :
          /\ Called(1, j)
          /\ Len(Verdict(Body(1)[j]).errors) = 1
          /\ Len(cfg.ignore_rules) = 2
          /\ Len(Verdict(Body(1)[j]).evaluated) = 2
          /\ Len(ErrorPosts(1, j)) = 1
          /\ ErrorPosts(1, j)[1].sent
          /\ SubPosts("event", 1, j) = {}

====
